---- MODULE Spec2Model ----
(***************************************************************************)
(* Model of the health chatbot (src/chatbot.py): the fuzzy diagnosis       *)
(* ranker diagnose(), the name lookup get_disease_by_name() and the        *)
(* per-user dialogue handled by the /api/chat, /api/history and            *)
(* /api/history/clear routes.                                              *)
(*                                                                         *)
(* Python strings are sequences of one-character strings, so that lower(), *)
(* strip() and the substring test `a in b` are computed, not assumed.      *)
(* Scores are held multiplied by 100 (two decimals), as integers.          *)
(***************************************************************************)
EXTENDS Integers, Sequences, FiniteSets, TLC

VARIABLES
    DISEASES,       \* the catalog loaded from diseases.json (a sequence of records)
    ratio,          \* fuzz.token_sort_ratio on the symptom strings in play
    USER_CONTEXTS,  \* user_id -> list object of exchanged messages
    USER_STATE,     \* user_id -> name of the last diagnosed disease
    USER_HISTORY,   \* user_id -> list of diagnosis records
    USER_STAGE,     \* user_id -> stage of the conversation
    clock,          \* number of requests received so far (also the timestamp source)
    call,           \* locals and response of the handler that ran last (serial runs)
    thr,            \* per worker thread: position in chat() and its locals (threaded runs)
    symptoms,       \* argument of the diagnose() call under study
    top_k,          \* argument of the diagnose() call under study
    ranked          \* result of the diagnose() call under study

vars == <<DISEASES, ratio, USER_CONTEXTS, USER_STATE, USER_HISTORY, USER_STAGE,
          clock, call, thr, symptoms, top_k, ranked>>

-----------------------------------------------------------------------------
(* Strings                                                                 *)

UpperCase == <<"A","B","C","D","E","F","G","H","I","J","K","L","M",
               "N","O","P","Q","R","S","T","U","V","W","X","Y","Z">>
LowerCase == <<"a","b","c","d","e","f","g","h","i","j","k","l","m",
               "n","o","p","q","r","s","t","u","v","w","x","y","z">>
Whitespace == {" ", "\t", "\n"}

\* the lower-case letter of each upper-case letter
LowerOf == [c \in {UpperCase[i] : i \in 1..Len(UpperCase)} |->
               LowerCase[CHOOSE i \in 1..Len(UpperCase) : UpperCase[i] = c]]

LowerChar(c) == IF c \in DOMAIN LowerOf THEN LowerOf[c] ELSE c

\* str.lower()
Lower(s) == SubSeq([i \in 1..Len(s) |-> LowerChar(s[i])], 1, Len(s))

RECURSIVE LStrip(_)
LStrip(s) == IF s # <<>> /\ Head(s) \in Whitespace THEN LStrip(Tail(s)) ELSE s

RECURSIVE RStrip(_)
RStrip(s) ==
    IF s # <<>> /\ s[Len(s)] \in Whitespace THEN RStrip(SubSeq(s, 1, Len(s) - 1)) ELSE s

\* str.strip()
Strip(s) == RStrip(LStrip(s))

\* the Python test `a in b` on strings
IsSubstr(a, b) ==
    \E i \in 0..(Len(b) - Len(a)) : SubSeq(b, i + 1, i + Len(a)) = a

\* None, distinct from every string (no string holds a four-letter element)
None == <<"None">>

\* Python truthiness of an optional string
Truthy(x) == x # None /\ x # <<>>

normalize(text) == Strip(Lower(text))

-----------------------------------------------------------------------------
(* The texts in play                                                       *)

W_fever    == <<"f","e","v","e","r">>
W_cough    == <<"c","o","u","g","h">>
W_coughing == <<"c","o","u","g","h","i","n","g">>
W_nausea   == <<"n","a","u","s","e","a">>
W_ache     == <<"a","c","h","e">>
W_itch     == <<"i","t","c","h">>
W_flu      == <<"f","l","u">>
W_gut      == <<"g","u","t">>
Sp         == <<" ">>

N_Flu      == <<"F","l","u">>
N_GutFlu   == <<"G","u","t"," ","F","l","u">>
N_Cold     == <<"C","o","l","d">>

\* Catalog records as json.load gives them; Cold has only the keys name and
\* symptoms, so the .get() defaults are exercised.
D_Flu    == [name |-> N_Flu, symptoms |-> <<<<"F","e","v","e","r">>, W_cough>>,
             remedies |-> <<"rest", "warm fluids">>, prevention |-> "yearly flu shot"]
D_GutFlu == [name |-> N_GutFlu, symptoms |-> <<W_fever, W_nausea>>,
             remedies |-> <<"oral rehydration", "bland food">>,
             prevention |-> "wash hands"]
D_Cold   == [name |-> N_Cold, symptoms |-> <<>>]

\* dict.get(key, default)
Get(d, key, default) == IF key \in DOMAIN d THEN d[key] ELSE default

\* Raw request texts (payload "input")
T_yes      == <<" ","Y","e","s">>
T_ok       == <<"o","k">>
T_blank    == <<" ">>
T_symptoms == W_fever \o <<",">> \o Sp \o <<"C">> \o Tail(W_coughing)
T_one      == W_fever
T_nomatch  == W_itch \o Sp \o W_ache
T_flu      == <<"F","L","U">>
T_gutflu   == W_gut \o Sp \o W_flu
T_empty    == <<>>

-----------------------------------------------------------------------------
(* The collaborators: the trained NER pipeline and the fuzzywuzzy scorer   *)

\* nlp(text).ents of the trained model: entity spans (first, last, label) of
\* the request texts in play; any other text has no entity.
NlpEnts(text) ==
    CASE text = Lower(Strip(T_symptoms)) ->
             <<[first |-> 1, last |-> 5, label_ |-> "SYMPTOM"],
               [first |-> 8, last |-> 15, label_ |-> "SYMPTOM"]>>
      [] text = T_one -> <<[first |-> 1, last |-> 5, label_ |-> "SYMPTOM"]>>
      [] text = T_nomatch ->
             <<[first |-> 1, last |-> 4, label_ |-> "SYMPTOM"],
               [first |-> 6, last |-> 9, label_ |-> "SYMPTOM"]>>
      [] text = T_gutflu -> <<[first |-> 1, last |-> 3, label_ |-> "ORGAN"]>>
      [] OTHER -> <<>>

\* fuzz.token_sort_ratio of the pure-Python fuzzywuzzy on the symptom strings
\* the request texts and the catalog records hold (0..100).
LibraryRatio ==
    [p \in {W_fever, W_coughing, W_itch, W_ache} \X {W_fever, W_cough, W_nausea} |->
        CASE p = <<W_fever, W_fever>>    -> 100
          [] p = <<W_fever, W_nausea>>   -> 18
          [] p = <<W_coughing, W_cough>> -> 77
          [] p = <<W_coughing, W_nausea>> -> 14
          [] p = <<W_ache, W_fever>>     -> 22
          [] p = <<W_ache, W_cough>>     -> 44
          [] p = <<W_ache, W_nausea>>    -> 40
          [] p = <<W_itch, W_cough>>     -> 44
          [] OTHER -> 0]

-----------------------------------------------------------------------------
(* Utilities of chatbot.py                                                 *)

MatchThreshold == 60
BoostMatches   == 3
Boost          == 15
DefaultTopK    == 3
MinSymptoms    == 2

extract_symptoms(text) ==
    LET ents == NlpEnts(text)
    IN  { Strip(Lower(SubSeq(text, ents[i].first, ents[i].last))) :
            i \in { j \in 1..Len(ents) : ents[j].label_ = "SYMPTOM" } }

\* process.extractOne(query, choices, scorer=fuzz.token_sort_ratio): the first
\* choice of highest score as <<choice, score>>, None when there is no choice.
extractOne(query, choices) ==
    IF choices = <<>> THEN None
    ELSE LET best == CHOOSE i \in 1..Len(choices) :
                        /\ \A j \in 1..Len(choices) :
                              ratio[<<query, choices[j]>>] <= ratio[<<query, choices[i]>>]
                        /\ \A j \in 1..(i - 1) :
                              ratio[<<query, choices[j]>>] < ratio[<<query, choices[i]>>]
         IN  <<choices[best], ratio[<<query, choices[best]>>]>>

RECURSIVE SumScores(_)
SumScores(matched) ==
    IF matched = {} THEN 0
    ELSE LET m == CHOOSE x \in matched : TRUE
         IN  m[3] + SumScores(matched \ {m})

\* (mutant) a match weighs 1 instead of 10
RoundedScore_unitWeight(num_matches, total_score) ==
    LET q    == (10 * total_score) \div num_matches
        r    == (10 * total_score) % num_matches
        frac == IF 2 * r > num_matches \/ (2 * r = num_matches /\ q % 2 = 1)
                THEN q + 1 ELSE q
    IN  num_matches * 100 + frac
        + (IF num_matches >= BoostMatches THEN Boost * 100 ELSE 0)

\* round(num_matches * 10 + (total_score / num_matches) / 10 [+ 15], 2), times 100
\* (round-half-even, as Python rounds)
RoundedScore(num_matches, total_score) ==
    LET q    == (10 * total_score) \div num_matches
        r    == (10 * total_score) % num_matches
        frac == IF 2 * r > num_matches \/ (2 * r = num_matches /\ q % 2 = 1)
                THEN q + 1 ELSE q
    IN  num_matches * 1000 + frac
        + (IF num_matches >= BoostMatches THEN Boost * 100 ELSE 0)

\* lines 51-53 for one user symptom: the (user_symptom, disease symptom, score)
\* triple appended to `matched`, None when nothing is appended
Match(user_symptom, disease_symptoms) ==
    LET match == extractOne(user_symptom, disease_symptoms)
    IN  IF match # None /\ match[2] >= MatchThreshold
        THEN <<user_symptom, match[1], match[2]>> ELSE None

\* the `matched` list diagnose() builds for one disease, as a set of triples
Matched(disease, syms) ==
    LET raw == Get(disease, "symptoms", <<>>)
        disease_symptoms == SubSeq([i \in 1..Len(raw) |-> Lower(raw[i])], 1, Len(raw))
    IN  { Match(u, disease_symptoms) : u \in syms } \ {None}

\* the record diagnose() appends for one disease: {**disease, score, matched_symptoms}
Candidate(disease, matched) ==
    [k \in DOMAIN disease \cup {"score", "matched_symptoms"} |->
        IF k = "score" THEN RoundedScore(Cardinality(matched), SumScores(matched))
        ELSE IF k = "matched_symptoms" THEN { <<m[1], m[2]>> : m \in matched }
        ELSE disease[k]]

\* the `results` list before sorting: one record per disease with a match, in
\* catalog order
RECURSIVE Results(_, _)
Results(catalog, syms) ==
    IF catalog = <<>> THEN <<>>
    ELSE LET rest    == Results(SubSeq(catalog, 1, Len(catalog) - 1), syms)
             d       == catalog[Len(catalog)]
             matched == Matched(d, syms)
         IN  IF matched = {} THEN rest ELSE Append(rest, Candidate(d, matched))

\* (mutant) an unstable sort: a record goes before the records of equal score
InsertByScore_beforeEqual(sorted, x) ==
    LET n == Cardinality({ i \in 1..Len(sorted) : sorted[i].score > x.score })
    IN  SubSeq(sorted, 1, n) \o <<x>> \o SubSeq(sorted, n + 1, Len(sorted))

\* list.sort(key=score, reverse=True): stable, equal scores keep their order
InsertByScore(sorted, x) ==
    LET n == Cardinality({ i \in 1..Len(sorted) : sorted[i].score >= x.score })
    IN  SubSeq(sorted, 1, n) \o <<x>> \o SubSeq(sorted, n + 1, Len(sorted))

\* (mutant) the sort without reverse=True: ascending by score
RECURSIVE SortByScore_ascending(_)
SortByScore_ascending(results) ==
    IF results = <<>> THEN <<>>
    ELSE LET sorted == SortByScore_ascending(SubSeq(results, 1, Len(results) - 1))
             x      == results[Len(results)]
             n      == Cardinality({ i \in 1..Len(sorted) : sorted[i].score <= x.score })
         IN  SubSeq(sorted, 1, n) \o <<x>> \o SubSeq(sorted, n + 1, Len(sorted))

RECURSIVE SortByScore(_)
SortByScore(results) ==
    IF results = <<>> THEN <<>>
    ELSE InsertByScore(SortByScore(SubSeq(results, 1, Len(results) - 1)),
                       results[Len(results)])

\* (mutant) the whole sorted list returned, without the [:top_k] slice
diagnose_untruncated(syms, k) == SortByScore(Results(DISEASES, syms))

\* lines 44-77, for a positive top_k
diagnose(syms, k) ==
    LET sorted == SortByScore(Results(DISEASES, syms))
    IN  SubSeq(sorted, 1, IF k < Len(sorted) THEN k ELSE Len(sorted))

\* get_disease_by_name, as the position of the returned record in DISEASES
\* (0 for None)
get_disease_by_name(name) ==
    LET n    == normalize(name)
        hits == { i \in 1..Len(DISEASES) :
                    \/ IsSubstr(normalize(DISEASES[i].name), n)
                    \/ IsSubstr(n, normalize(DISEASES[i].name)) }
    IN  IF hits = {} THEN 0 ELSE CHOOSE i \in hits : \A j \in hits : i <= j

-----------------------------------------------------------------------------
(* The dialogue: what one chat() turn decides                              *)

\* line 96: (payload.get("input") or "").strip().lower(); a payload without
\* the key, or with null for it, gives None
InputOf(raw) == Lower(Strip(IF raw = None THEN <<>> ELSE raw))

\* (mutant) the emptiness test made on the raw text, before strip()
EmptyInput_beforeStrip(raw) == raw = None \/ raw = <<>>

\* line 99: not user_input
EmptyInput(raw) == InputOf(raw) = <<>>

Affirmative == { <<"y","e","s">>, <<"y","e","a","h">>, <<"y","u","p">>,
                 <<"o","k">>, <<"o","k","a","y">> }

Stages == {"diagnosis", "ask_remedies", "ask_prevention", "done"}

\* (mutant) the confirmation branch taken whatever the input is
ConfirmReturns_anyInput(stage, user_input, last_disease) ==
    /\ stage \in {"ask_remedies", "ask_prevention"}
    /\ Truthy(last_disease)
    /\ get_disease_by_name(last_disease) # 0

\* lines 114-134: the confirmation branch answers and returns (otherwise the
\* turn goes on to line 136)
ConfirmReturns(stage, user_input, last_disease) ==
    /\ stage \in {"ask_remedies", "ask_prevention"}
    /\ user_input \in Affirmative
    /\ Truthy(last_disease)
    /\ get_disease_by_name(last_disease) # 0

\* (mutant) the bodies of the two confirmation branches exchanged
Confirm_branchesSwapped(stage, last_disease) ==
    LET info == DISEASES[get_disease_by_name(last_disease)]
    IN  IF stage = "ask_prevention"
        THEN [stage |-> "ask_prevention", ret |-> 125,
              reply |-> [kind |-> "remedies", name |-> info.name,
                         lines |-> Get(info, "remedies", <<>>)]]
        ELSE [stage |-> "done", ret |-> 134,
              reply |-> [kind |-> "prevention", name |-> info.name,
                         lines |-> <<Get(info, "prevention", "Not specified")>>]]

\* lines 116-125 and 129-134: the stage written, the reply and the return taken
Confirm(stage, last_disease) ==
    LET info == DISEASES[get_disease_by_name(last_disease)]
    IN  IF stage = "ask_remedies"
        THEN [stage |-> "ask_prevention", ret |-> 125,
              reply |-> [kind |-> "remedies", name |-> info.name,
                         lines |-> Get(info, "remedies", <<>>)]]
        ELSE [stage |-> "done", ret |-> 134,
              reply |-> [kind |-> "prevention", name |-> info.name,
                         lines |-> <<Get(info, "prevention", "Not specified")>>]]

\* lines 158-161: the first catalog record whose name is in the input and for
\* which get_disease_by_name finds a record; the position of that found record
\* (0 when the loop ends without returning)
MentionedDisease(user_input) ==
    LET hits == { i \in 1..Len(DISEASES) :
                    /\ IsSubstr(normalize(DISEASES[i].name), normalize(user_input))
                    /\ get_disease_by_name(DISEASES[i].name) # 0 }
    IN  IF hits = {} THEN 0
        ELSE get_disease_by_name(DISEASES[CHOOSE i \in hits : \A j \in hits : i <= j].name)

\* (mutant) lines 148-154 left out: the diagnosis is not logged
SymptomOutcome_noLog(user_input, syms, matches, ts) ==
    [state |-> matches[1].name, stage |-> "ask_remedies", ret |-> 156,
     reply |-> [kind |-> "diagnosis", name |-> matches[1].name, lines |-> <<>>],
     log |-> <<>>]

\* lines 141-156: the top candidate recorded, the record logged
SymptomOutcome(user_input, syms, matches, ts) ==
    [state |-> matches[1].name, stage |-> "ask_remedies", ret |-> 156,
     reply |-> [kind |-> "diagnosis", name |-> matches[1].name, lines |-> <<>>],
     log |-> <<[ts |-> ts, input |-> user_input, extracted |-> syms,
                predictions |-> [i \in 1..Len(matches) |->
                    [name |-> matches[i].name, confidence |-> matches[i].score]],
                engine |-> "Local NER"]>>]

\* (mutant) the normalized name stored instead of the record's name
MentionOutcome_normalizedName(m) ==
    [state |-> normalize(DISEASES[m].name), stage |-> "ask_remedies", ret |-> 166,
     reply |-> [kind |-> "mention", name |-> DISEASES[m].name, lines |-> <<>>],
     log |-> <<>>]

\* (mutant) line 162 left out: the stage is set, the disease is not recorded
MentionOutcome_stageOnly(m) ==
    [state |-> None, stage |-> "ask_remedies", ret |-> 166,
     reply |-> [kind |-> "mention", name |-> DISEASES[m].name, lines |-> <<>>],
     log |-> <<>>]

\* lines 162-166: the record found for the mentioned name is recorded
MentionOutcome(m) ==
    [state |-> DISEASES[m].name, stage |-> "ask_remedies", ret |-> 166,
     reply |-> [kind |-> "mention", name |-> DISEASES[m].name, lines |-> <<>>],
     log |-> <<>>]

\* lines 168-171: no diagnosis
NoOutcome ==
    [state |-> None, stage |-> "diagnosis", ret |-> 171,
     reply |-> [kind |-> "need_detail", name |-> None, lines |-> <<>>],
     log |-> <<>>]

\* (mutant) line 138 left out: diagnose() is called whatever the number of symptoms
Diagnosis_noMinimum(user_input, ts) ==
    LET syms    == extract_symptoms(user_input)
        matches == diagnose(syms, DefaultTopK)
        m       == MentionedDisease(user_input)
    IN  [scored |-> TRUE] @@
        (IF matches # <<>> THEN SymptomOutcome(user_input, syms, matches, ts)
         ELSE IF m # 0 THEN MentionOutcome(m)
         ELSE NoOutcome)

\* lines 136-171: diagnosis handling of one input. state is the name written to
\* USER_STATE (None: not written), log the records appended to USER_HISTORY.
\* scored tells whether diagnose() was called (line 139).
Diagnosis(user_input, ts) ==
    LET syms    == extract_symptoms(user_input)
        scored  == Cardinality(syms) >= MinSymptoms
        matches == IF scored THEN diagnose(syms, DefaultTopK) ELSE <<>>
        m       == MentionedDisease(user_input)
    IN  [scored |-> scored] @@
        (IF matches # <<>> THEN SymptomOutcome(user_input, syms, matches, ts)
         ELSE IF m # 0 THEN MentionOutcome(m)
         ELSE NoOutcome)

\* (mutant) line 168 left out: a turn without diagnosis leaves the stage as read
Turn_keepsStage(stage, last_disease, user_input, ts) ==
    IF ConfirmReturns(stage, user_input, last_disease)
    THEN [state |-> None, log |-> <<>>, scored |-> FALSE] @@ Confirm(stage, last_disease)
    ELSE LET d == Diagnosis(user_input, ts)
         IN  IF d.ret = 171 THEN [d EXCEPT !.stage = stage] ELSE d

\* lines 111-171 for the values the turn read: what it writes and answers
Turn(stage, last_disease, user_input, ts) ==
    IF ConfirmReturns(stage, user_input, last_disease)
    THEN [state |-> None, log |-> <<>>, scored |-> FALSE] @@ Confirm(stage, last_disease)
    ELSE Diagnosis(user_input, ts)

-----------------------------------------------------------------------------
(* The request handlers, each run to completion (serial requests)          *)

MaxTurns == 4

Users == {"10.0.0.7", "local-user"}
SerialUsers == {"local-user"}

Inputs == {T_yes, T_blank, T_empty, None, T_symptoms, T_one, T_nomatch, T_flu, T_gutflu}

Catalogs == { <<D_Flu>>, <<D_Flu, D_GutFlu>>, <<D_GutFlu, D_Flu>>,
              <<D_Cold, D_GutFlu, D_Flu>> }

\* (mutant) one slot shared by all users instead of one per user_id
Put_everyKey(d, k, v) == [x \in DOMAIN d \cup {k} |-> v]

\* d[k] = v on a dict
Put(d, k, v) == [x \in DOMAIN d \cup {k} |-> IF x = k THEN v ELSE d[x]]

\* a new list object, identified by the request that created it
NewList(id, items) == [id |-> id, items |-> items]

Greeting == [role |-> "assistant",
             content |-> [kind |-> "greeting", name |-> None, lines |-> <<>>]]

NoCall == [op |-> "none", user_id |-> "", user_input |-> <<>>, stage |-> "",
           last_disease |-> None, ret |-> 0, scored |-> FALSE,
           reply |-> [kind |-> "none", name |-> None, lines |-> <<>>]]

DialogueInit ==
    /\ ratio = LibraryRatio
    /\ USER_CONTEXTS = <<>>
    /\ USER_STATE = <<>>
    /\ USER_HISTORY = <<>>
    /\ USER_STAGE = <<>>
    /\ clock = 0
    /\ call = NoCall
    /\ symptoms = {}
    /\ top_k = 0
    /\ ranked = <<>>

Init ==
    /\ DISEASES \in Catalogs
    /\ DialogueInit
    /\ thr = <<>>

\* chat(), lines 95-100: the request is answered without touching any state
ChatEmpty(user_id, raw) ==
    /\ clock < MaxTurns
    /\ EmptyInput(raw)
    /\ clock' = clock + 1
    /\ call' = [NoCall EXCEPT !.op = "chat", !.user_id = user_id, !.ret = 100,
                              !.reply.kind = "describe"]
    /\ UNCHANGED <<DISEASES, ratio, USER_CONTEXTS, USER_STATE, USER_HISTORY, USER_STAGE,
                   thr, symptoms, top_k, ranked>>

\* chat(), lines 95-171, for a non-empty input
Chat(user_id, raw) ==
    LET user_input   == InputOf(raw)
        ctx0         == IF user_id \in DOMAIN USER_CONTEXTS THEN USER_CONTEXTS
                        ELSE Put(USER_CONTEXTS, user_id, NewList(clock + 1, <<Greeting>>))
        hist0        == IF user_id \in DOMAIN USER_HISTORY THEN USER_HISTORY
                        ELSE Put(USER_HISTORY, user_id, NewList(clock + 1, <<>>))
        stage        == IF user_id \in DOMAIN USER_STAGE THEN USER_STAGE[user_id]
                        ELSE "diagnosis"
        last_disease == IF user_id \in DOMAIN USER_STATE THEN USER_STATE[user_id] ELSE None
        t            == Turn(stage, last_disease, user_input, clock + 1)
    IN  /\ clock < MaxTurns
        /\ ~EmptyInput(raw)
        /\ clock' = clock + 1
        /\ USER_CONTEXTS' = Put(ctx0, user_id,
               [ctx0[user_id] EXCEPT !.items = @ \o
                   <<[role |-> "user", content |-> user_input],
                     [role |-> "assistant", content |-> t.reply]>>])
        /\ USER_HISTORY' = Put(hist0, user_id,
               [hist0[user_id] EXCEPT !.items = @ \o t.log])
        /\ USER_STATE' = IF t.state = None THEN USER_STATE
                         ELSE Put(USER_STATE, user_id, t.state)
        /\ USER_STAGE' = Put(USER_STAGE, user_id, t.stage)
        /\ call' = [op |-> "chat", user_id |-> user_id, user_input |-> user_input,
                    stage |-> stage, last_disease |-> last_disease, ret |-> t.ret,
                    scored |-> t.scored, reply |-> t.reply]
        /\ UNCHANGED <<DISEASES, ratio, thr, symptoms, top_k, ranked>>

\* get_history(), lines 174-176
GetHistory(user_id) ==
    /\ clock < MaxTurns
    /\ clock' = clock + 1
    /\ call' = [NoCall EXCEPT !.op = "get_history", !.user_id = user_id, !.ret = 176,
                   !.reply = [kind |-> "history", name |-> None,
                              lines |-> IF user_id \in DOMAIN USER_HISTORY
                                        THEN USER_HISTORY[user_id].items ELSE <<>>]]
    /\ UNCHANGED <<DISEASES, ratio, USER_CONTEXTS, USER_STATE, USER_HISTORY, USER_STAGE,
                   thr, symptoms, top_k, ranked>>

\* clear_history(), lines 179-182
ClearHistory(user_id) ==
    /\ clock < MaxTurns
    /\ clock' = clock + 1
    /\ USER_HISTORY' = Put(USER_HISTORY, user_id, NewList(clock + 1, <<>>))
    /\ call' = [NoCall EXCEPT !.op = "clear_history", !.user_id = user_id, !.ret = 182,
                              !.reply.kind = "success"]
    /\ UNCHANGED <<DISEASES, ratio, USER_CONTEXTS, USER_STATE, USER_STAGE,
                   thr, symptoms, top_k, ranked>>

Next ==
    \/ \E u \in SerialUsers, raw \in Inputs : ChatEmpty(u, raw)
    \/ \E u \in SerialUsers, raw \in Inputs : Chat(u, raw)
    \/ \E u \in SerialUsers : GetHistory(u)
    \/ \E u \in SerialUsers : ClearHistory(u)

Spec == Init /\ [][Next]_vars

-----------------------------------------------------------------------------
(* Properties of the dialogue (serial requests, specification Spec)        *)

\* the handler that ran last was chat() and it went past the empty-input return
ChatTurn == call.op = "chat" /\ call.ret # 100

\* that turn went on to diagnosis handling (line 136)
DiagnosisHandled == ChatTurn /\ call.ret \in {156, 166, 171}

\* the positions of the catalog records of that exact name
RecordsNamed(name) == { i \in 1..Len(DISEASES) : DISEASES[i].name = name }

NameInInput(i, user_input) == IsSubstr(normalize(DISEASES[i].name), normalize(user_input))

\* C1: at stage ask_remedies with lastDisease set, an affirmative input moves
\* the stage to ask_prevention and the reply holds every remedy of the catalog
\* record named lastDisease (that record, not one whose name contains it).
C1_RemediesOfLastDisease ==
    (/\ ChatTurn
     /\ call.stage = "ask_remedies"
     /\ call.user_input \in Affirmative
     /\ Truthy(call.last_disease))
    => /\ USER_STAGE[call.user_id] = "ask_prevention"
       /\ call.reply.kind = "remedies"
       /\ \A i \in RecordsNamed(call.last_disease) :
             \A k \in 1..Len(Get(DISEASES[i], "remedies", <<>>)) :
                \E l \in 1..Len(call.reply.lines) :
                   call.reply.lines[l] = DISEASES[i].remedies[k]

\* the candidate diagnose() ranks first, said without the sort: a disease with
\* a match whose score no disease exceeds and no earlier disease equals
IsTopRanked(name, syms) ==
    \E i \in 1..Len(DISEASES) :
        /\ DISEASES[i].name = name
        /\ Matched(DISEASES[i], syms) # {}
        /\ \A j \in 1..Len(DISEASES) :
              Matched(DISEASES[j], syms) # {} =>
                 LET si == Candidate(DISEASES[i], Matched(DISEASES[i], syms)).score
                     sj == Candidate(DISEASES[j], Matched(DISEASES[j], syms)).score
                 IN  sj < si \/ (sj = si /\ i <= j)

\* some disease of the catalog has a symptom scoring at least 60 for a user symptom
SomeMatch(syms) ==
    \E i \in 1..Len(DISEASES), u \in syms :
        \E k \in 1..Len(Get(DISEASES[i], "symptoms", <<>>)) :
            ratio[<<u, Lower(DISEASES[i].symptoms[k])>>] >= MatchThreshold

\* C2: at stage diagnosis, an input with at least two extracted symptoms for
\* which the ranker returns a candidate records the top-ranked candidate's
\* name as lastDisease and sets the stage to ask_remedies.
C2_TopCandidateRecorded ==
    (/\ ChatTurn
     /\ call.stage = "diagnosis"
     /\ Cardinality(extract_symptoms(call.user_input)) >= MinSymptoms
     /\ SomeMatch(extract_symptoms(call.user_input)))
    => /\ call.user_id \in DOMAIN USER_STATE
       /\ IsTopRanked(USER_STATE[call.user_id], extract_symptoms(call.user_input))
       /\ USER_STAGE[call.user_id] = "ask_remedies"

C2_Witness ==
    /\ ChatTurn
    /\ call.stage = "diagnosis"
    /\ call.ret = 156
    /\ Len(diagnose(extract_symptoms(call.user_input), DefaultTopK)) >= 2
    /\ USER_STATE[call.user_id] = N_Flu
    /\ DISEASES[1].name # N_Flu

\* C3: at stage ask_prevention with lastDisease set, an affirmative input moves
\* the stage to done and the reply discloses the prevention text of the
\* catalog record named lastDisease.
C3_PreventionOfLastDisease ==
    (/\ ChatTurn
     /\ call.stage = "ask_prevention"
     /\ call.user_input \in Affirmative
     /\ Truthy(call.last_disease))
    => /\ USER_STAGE[call.user_id] = "done"
       /\ call.reply.kind = "prevention"
       /\ \A i \in RecordsNamed(call.last_disease) :
             call.reply.lines = <<Get(DISEASES[i], "prevention", "Not specified")>>

\* C4: a non-empty input at ask_remedies or ask_prevention that is not
\* affirmative, or any non-empty input at done, gives the stage, the lastDisease
\* and the reply that the same input gives at stage diagnosis.
C4_FallThrough ==
    (/\ ChatTurn
     /\ \/ call.stage \in {"ask_remedies", "ask_prevention"}
           /\ call.user_input \notin Affirmative
        \/ call.stage = "done")
    => LET d == Turn("diagnosis", call.last_disease, call.user_input, clock)
       IN  /\ call.reply = d.reply
           /\ USER_STAGE[call.user_id] = d.stage
           /\ USER_STATE[call.user_id] =
                 (IF d.state = None THEN call.last_disease ELSE d.state)

C4_Witness ==
    /\ ChatTurn
    /\ call.stage = "done"
    /\ call.user_input \in Affirmative
    /\ call.reply.kind = "need_detail"

\* C5: in diagnosis handling, when no symptom diagnosis is made and the input
\* contains a catalog disease name, the disease recorded as lastDisease is a
\* catalog disease whose name occurs in the input, and the stage is ask_remedies.
C5_MentionedDiseaseRecorded ==
    (/\ DiagnosisHandled
     /\ call.ret # 156
     /\ \E i \in 1..Len(DISEASES) : NameInInput(i, call.user_input))
    => /\ USER_STAGE[call.user_id] = "ask_remedies"
       /\ call.user_id \in DOMAIN USER_STATE
       /\ \E i \in RecordsNamed(USER_STATE[call.user_id]) :
             NameInInput(i, call.user_input)

\* C6: in diagnosis handling, when the input neither yields a symptom-based
\* diagnosis nor names a catalog disease, the reply says that no diagnosis could
\* be made and the stage after the turn is diagnosis, whatever it was before.
C6_NoDiagnosisRecovers ==
    (/\ DiagnosisHandled
     /\ \/ Cardinality(extract_symptoms(call.user_input)) < MinSymptoms
        \/ ~SomeMatch(extract_symptoms(call.user_input))
     /\ \A i \in 1..Len(DISEASES) : ~NameInInput(i, call.user_input))
    => /\ call.reply.kind = "need_detail"
       /\ USER_STAGE[call.user_id] = "diagnosis"

C6_Witness ==
    /\ DiagnosisHandled
    /\ call.stage = "ask_prevention"
    /\ call.reply.kind = "need_detail"
    /\ USER_STAGE[call.user_id] = "diagnosis"

\* C7: every user's lastDisease, when set, is the name of a catalog record.
C7_LastDiseaseInCatalog ==
    \A u \in DOMAIN USER_STATE : RecordsNamed(USER_STATE[u]) # {}

C7_Witness ==
    \E u \in DOMAIN USER_STATE :
        /\ USER_STATE[u] = N_GutFlu
        /\ call.ret = 166
        /\ ~IsSubstr(normalize(N_GutFlu), call.user_input)

\* what a dict holds for a user: the items of the user's list (none without a
\* list), the stage and the last disease as a turn would find them
ItemsIn(d, user_id) == IF user_id \in DOMAIN d THEN d[user_id].items ELSE <<>>
StageIn(d, user_id) == IF user_id \in DOMAIN d THEN d[user_id] ELSE "diagnosis"
DiseaseIn(d, user_id) == IF user_id \in DOMAIN d THEN d[user_id] ELSE None

C14_EmptyInputRecovers ==
    [][(call'.op = "chat" /\ call'.user_input = <<>>)
       => /\ call'.ret = 100
          /\ call'.reply.kind = "describe"
          /\ extract_symptoms(call'.user_input) = {}
          /\ StageIn(USER_STAGE', call'.user_id) = StageIn(USER_STAGE, call'.user_id)
          /\ DiseaseIn(USER_STATE', call'.user_id) = DiseaseIn(USER_STATE, call'.user_id)
      ]_vars

\* an empty input while the confirmation for prevention tips is awaited
C14_Witness ==
    /\ call.op = "chat"
    /\ call.user_input = <<>>
    /\ call.ret = 100
    /\ StageIn(USER_STAGE, call.user_id) = "ask_prevention"

\* the list `new` is the list `old` with `tail` appended (a list that did not
\* exist starts with the greeting)
Appended(old, new, tail, fresh) ==
    new = (IF old = <<>> THEN fresh ELSE old) \o tail

\* the exchange of the turn that ran last
Exchange(c) == << [role |-> "user", content |-> c.user_input],
                  [role |-> "assistant", content |-> c.reply] >>

\* a user's diagnosis log lost records only by that user's clear_history
OnlyClearEmpties ==
    \A u \in Users :
       (\E i \in 1..Len(ItemsIn(USER_HISTORY, u)) :
           \/ i > Len(ItemsIn(USER_HISTORY', u))
           \/ ItemsIn(USER_HISTORY', u)[i] # ItemsIn(USER_HISTORY, u)[i])
       => call'.op = "clear_history" /\ call'.user_id = u

\* C15 as claimed: every chat turn appends the user's message and the reply to
\* the user's turnHistory; every turn that records a disease as lastDisease and
\* sets the stage to ask_remedies appends exactly one record to the user's
\* diagnosisLog; the log loses records only by an explicit clear.
C15_EveryTurnAppended ==
    [][/\ call'.op = "chat" =>
             Appended(ItemsIn(USER_CONTEXTS, call'.user_id),
                      ItemsIn(USER_CONTEXTS', call'.user_id), Exchange(call'), <<Greeting>>)
       /\ (call'.op = "chat" /\ call'.ret \in {156, 166}) =>
             /\ Len(ItemsIn(USER_HISTORY', call'.user_id))
                   = Len(ItemsIn(USER_HISTORY, call'.user_id)) + 1
             /\ SubSeq(ItemsIn(USER_HISTORY', call'.user_id), 1,
                       Len(ItemsIn(USER_HISTORY, call'.user_id)))
                   = ItemsIn(USER_HISTORY, call'.user_id)
       /\ OnlyClearEmpties]_vars

\* C15 as amended: every chat turn with a non-empty input appends the user's
\* message and the reply to the user's turnHistory, and a turn with empty input
\* appends nothing; every turn that ends in a symptom-based diagnosis appends
\* exactly one record to the user's diagnosisLog, and every other turn (also
\* the one that records a disease named in the input) appends none; the log
\* loses records only by an explicit clear.
C15_ProcessedTurnAppended ==
    [][/\ ChatTurn' =>
             Appended(ItemsIn(USER_CONTEXTS, call'.user_id),
                      ItemsIn(USER_CONTEXTS', call'.user_id), Exchange(call'), <<Greeting>>)
       /\ (call'.op = "chat" /\ call'.ret = 100) => USER_CONTEXTS' = USER_CONTEXTS
       /\ (call'.op = "chat" /\ call'.ret = 156) =>
             /\ Len(ItemsIn(USER_HISTORY', call'.user_id))
                   = Len(ItemsIn(USER_HISTORY, call'.user_id)) + 1
             /\ SubSeq(ItemsIn(USER_HISTORY', call'.user_id), 1,
                       Len(ItemsIn(USER_HISTORY, call'.user_id)))
                   = ItemsIn(USER_HISTORY, call'.user_id)
             /\ ItemsIn(USER_HISTORY', call'.user_id)
                   [Len(ItemsIn(USER_HISTORY', call'.user_id))].input = call'.user_input
       /\ (call'.op = "chat" /\ call'.ret # 156) =>
             ItemsIn(USER_HISTORY', call'.user_id) = ItemsIn(USER_HISTORY, call'.user_id)
       /\ OnlyClearEmpties]_vars

\* a disease named in the input is recorded after a logged diagnosis: two
\* exchanges in the history, one record in the log
C15_Witness ==
    /\ ChatTurn
    /\ call.ret = 166
    /\ Len(ItemsIn(USER_CONTEXTS, call.user_id)) = 5
    /\ Len(ItemsIn(USER_HISTORY, call.user_id)) = 1

\* C16: every user's stage is one of diagnosis, ask_remedies, ask_prevention and
\* done, and a user whose stage is ask_remedies, ask_prevention or done has a
\* lastDisease.
C16_StageNeedsLastDisease ==
    \A u \in DOMAIN USER_STAGE :
        /\ USER_STAGE[u] \in Stages
        /\ USER_STAGE[u] # "diagnosis" =>
              u \in DOMAIN USER_STATE /\ Truthy(USER_STATE[u])

\* a conversation that went through both confirmations
C16_Witness ==
    \E u \in DOMAIN USER_STAGE :
        /\ USER_STAGE[u] = "done"
        /\ u \in DOMAIN USER_STATE
        /\ call.ret = 134

\* a reply of the given kind at position i of a user's exchanged messages
ReplyAt(items, i, kind) ==
    /\ i \in 1..Len(items)
    /\ items[i].role = "assistant"
    /\ items[i].content.kind = kind

\* in a user's exchanged messages, the reply before each prevention reply is
\* the remedies reply for the same disease
PreventionFollowsRemedies(items) ==
    \A i \in 1..Len(items) :
        ReplyAt(items, i, "prevention") =>
           /\ ReplyAt(items, i - 2, "remedies")
           /\ items[i - 2].content.name = items[i].content.name
           /\ items[i - 1].role = "user"

\* C17: with turns processed one at a time, a turn that discloses the
\* prevention text of a disease moves the stage to done and is, among the
\* user's non-empty turns, the turn after the one that disclosed the remedies
\* of the same disease; a stage becomes ask_prevention only from ask_remedies
\* and done only from ask_prevention, lastDisease staying the same.
C17_PreventionAfterRemedies ==
    [][\A u \in Users :
          /\ PreventionFollowsRemedies(ItemsIn(USER_CONTEXTS', u))
          /\ (ChatTurn' /\ call'.user_id = u /\ call'.reply.kind = "prevention")
                => StageIn(USER_STAGE', u) = "done"
          /\ (StageIn(USER_STAGE', u) = "ask_prevention"
                 /\ StageIn(USER_STAGE, u) # "ask_prevention")
                => /\ StageIn(USER_STAGE, u) = "ask_remedies"
                   /\ DiseaseIn(USER_STATE', u) = DiseaseIn(USER_STATE, u)
          /\ (StageIn(USER_STAGE', u) = "done" /\ StageIn(USER_STAGE, u) # "done")
                => /\ StageIn(USER_STAGE, u) = "ask_prevention"
                   /\ DiseaseIn(USER_STATE', u) = DiseaseIn(USER_STATE, u)]_vars

\* the prevention text is disclosed in the third non-empty turn of a user,
\* another request (an empty turn, a history read or clear) lying among them
C17_Witness ==
    /\ ChatTurn
    /\ call.ret = 134
    /\ clock = 4
    /\ Len(ItemsIn(USER_CONTEXTS, call.user_id)) = 7
    /\ StageIn(USER_STAGE, call.user_id) = "done"

-----------------------------------------------------------------------------
(* diagnose() as a pure function: any catalog, any scorer, any symptom set *)

MaxCatalog == 3
MaxTopK    == 3

\* user symptoms and catalog symptoms of the ranking runs
RankSymptoms    == {W_fever, W_itch, W_ache}
RankVocabulary  == {W_cough, W_nausea}

\* the scores the scorer may give: no match, the lowest and the highest
\* score that count as a match
ScoreValues == {0, 60, 100}

RankPool ==
    { [name |-> N_Flu,    symptoms |-> <<W_cough>>],
      [name |-> N_GutFlu, symptoms |-> <<W_cough, W_nausea>>],
      [name |-> <<"Z","i","k","a">>, symptoms |-> <<W_nausea>>],
      D_Cold }

\* the catalogs of at most MaxCatalog records of distinct names
RankCatalogs ==
    UNION { { c \in [1..n -> RankPool] : \A i, j \in 1..n : c[i] = c[j] => i = j } :
              n \in 0..MaxCatalog }

RankInit ==
    /\ DISEASES \in RankCatalogs
    /\ ratio \in [RankSymptoms \X RankVocabulary -> ScoreValues]
    /\ USER_CONTEXTS = <<>>
    /\ USER_STATE = <<>>
    /\ USER_HISTORY = <<>>
    /\ USER_STAGE = <<>>
    /\ clock = 0
    /\ call = NoCall
    /\ thr = <<>>
    /\ symptoms = {}
    /\ top_k = 0
    /\ ranked = <<>>

\* one call diagnose(syms, k)
Diagnose(syms, k) ==
    /\ call.op = "none"
    /\ symptoms' = syms
    /\ top_k' = k
    /\ ranked' = diagnose(syms, k)
    /\ call' = [NoCall EXCEPT !.op = "diagnose", !.ret = 77]
    /\ UNCHANGED <<DISEASES, ratio, USER_CONTEXTS, USER_STATE, USER_HISTORY, USER_STAGE,
                   clock, thr>>

RankNext == \E syms \in SUBSET RankSymptoms, k \in 1..MaxTopK : Diagnose(syms, k)

RankSpec == RankInit /\ [][RankNext]_vars

\* the position in the catalog of the record a candidate was made from
CatalogPosition(candidate) ==
    CHOOSE i \in 1..Len(DISEASES) : DISEASES[i].name = candidate.name

\* C10: the list diagnose() returns is sorted non-increasing by score, and
\* candidates of equal score appear in catalog order.
C10_SortedStable ==
    call.op = "diagnose" =>
       \A i, j \in 1..Len(ranked) :
          i < j => \/ ranked[i].score > ranked[j].score
                   \/ /\ ranked[i].score = ranked[j].score
                      /\ CatalogPosition(ranked[i]) < CatalogPosition(ranked[j])

C10_Witness ==
    /\ call.op = "diagnose"
    /\ Len(ranked) = 3
    /\ ranked[1].score > ranked[2].score
    /\ ranked[2].score = ranked[3].score
    /\ CatalogPosition(ranked[1]) = 3

\* the catalog records that have a symptom matching one of the user's symptoms
WithMatch(syms) ==
    { i \in 1..Len(DISEASES) :
        \E u \in syms : \E k \in 1..Len(Get(DISEASES[i], "symptoms", <<>>)) :
            ratio[<<u, Lower(DISEASES[i].symptoms[k])>>] >= MatchThreshold }

\* C11: diagnose() returns at most top_k candidates, and no candidate is made
\* from a catalog record whose symptom set is empty.
C11_AtMostTopK ==
    call.op = "diagnose" =>
       /\ Len(ranked) <= top_k
       /\ \A i \in 1..Len(ranked) :
             Get(DISEASES[CatalogPosition(ranked[i])], "symptoms", <<>>) # <<>>

\* the slice cut candidates off, and the catalog holds a record without symptoms
C11_Witness ==
    /\ call.op = "diagnose"
    /\ top_k >= 1
    /\ Len(ranked) = top_k
    /\ Cardinality(WithMatch(symptoms)) > top_k
    /\ \E i \in 1..Len(DISEASES) : Get(DISEASES[i], "symptoms", <<>>) = <<>>

\* the best score of one user symptom against the symptoms of a catalog record
BestScore(u, d) ==
    LET scores == { ratio[<<u, Lower(d.symptoms[k])>>] : k \in 1..Len(d.symptoms) }
    IN  CHOOSE x \in scores : \A y \in scores : y <= x

RECURSIVE SumBest(_, _)
SumBest(syms, d) ==
    IF syms = {} THEN 0
    ELSE LET u == CHOOSE x \in syms : TRUE
         IN  BestScore(u, d) + SumBest(syms \ {u}, d)

\* the user symptoms whose best score against the record is at least 70
GoodMatches(syms, d) == Cardinality({ u \in syms : BestScore(u, d) >= 70 })

\* goodMatches * 10 + avgScore / 10 to two decimals (times 100), avgScore being
\* the mean of the best scores of all the user symptoms
CompositeOverAll(syms, d) ==
    LET n == Cardinality(syms)
        q == (10 * SumBest(syms, d)) \div n
        r == (10 * SumBest(syms, d)) % n
    IN  GoodMatches(syms, d) * 1000
        + (IF 2 * r > n \/ (2 * r = n /\ q % 2 = 1) THEN q + 1 ELSE q)

\* C12: the score of every candidate is goodMatches * 10 + avgScore / 10, with
\* goodMatches the number of user symptoms of best score at least 70 and
\* avgScore the mean of the best scores of all user symptoms; 15 more only
\* where the boost policy applies (goodMatches >= 3).
C12_CompositeScore ==
    call.op = "diagnose" =>
       \A i \in 1..Len(ranked) :
          LET d == DISEASES[CatalogPosition(ranked[i])]
          IN  \/ ranked[i].score = CompositeOverAll(symptoms, d)
              \/ /\ GoodMatches(symptoms, d) >= 3
                 /\ ranked[i].score = CompositeOverAll(symptoms, d) + 1500

\* the number of user symptoms that match a catalog record (best score >= 60)
MatchCount(syms, d) ==
    LET raw == Get(d, "symptoms", <<>>)
        low == SubSeq([k \in 1..Len(raw) |-> Lower(raw[k])], 1, Len(raw))
    IN  Cardinality({ u \in syms :
           \E k \in 1..Len(low) : ratio[<<u, low[k]>>] >= MatchThreshold })

\* the place in the returned list of the candidate made from catalog record i
\* (0 when it is not in the list)
RankOf(i) ==
    IF \E p \in 1..Len(ranked) : ranked[p].name = DISEASES[i].name
    THEN CHOOSE p \in 1..Len(ranked) : ranked[p].name = DISEASES[i].name
    ELSE 0

\* C18: a disease with more matched user symptoms than another matched disease
\* has the strictly higher score and is ranked before it (it is in the returned
\* list whenever the other is), whatever the scores of the matches in 60..100,
\* the +15 at three matches included.
C18_MoreMatchesRankHigher ==
    call.op = "diagnose" =>
       LET n     == Len(DISEASES)
           count == SubSeq([i \in 1..n |-> MatchCount(symptoms, DISEASES[i])], 1, n)
           rank  == SubSeq([i \in 1..n |-> RankOf(i)], 1, n)
       IN  \A i, j \in 1..n :
              (count[j] > 0 /\ count[i] > count[j] /\ rank[j] # 0)
              => /\ rank[i] # 0
                 /\ rank[i] < rank[j]
                 /\ ranked[rank[i]].score > ranked[rank[j]].score

\* a close case with the boost: three matches of score 60 ranked before two
\* matches of score 100 of a disease that comes earlier in the catalog
C18_Witness ==
    /\ call.op = "diagnose"
    /\ \E i, j \in 1..Len(DISEASES) :
          /\ MatchCount(symptoms, DISEASES[i]) = 3
          /\ MatchCount(symptoms, DISEASES[j]) = 2
          /\ j < i
          /\ RankOf(i) # 0 /\ RankOf(j) # 0
          /\ ranked[RankOf(i)].score = 5100
          /\ ranked[RankOf(j)].score = 3000

-----------------------------------------------------------------------------
(* The handlers on the threaded server: two worker threads, each statement *)
(* that reads or writes a shared dict or list is a step of its own         *)

MaxRequests == 2

Threads == {1, 2}

ConcInputs == {T_yes, T_symptoms, T_blank}

ConcCatalogs == { <<D_Flu, D_GutFlu>> }

\* a worker thread between requests
IdleThread ==
    [pc |-> "idle", op |-> "none", rid |-> 0, overlaps |-> 0,
     before |-> [stage |-> "", last_disease |-> None],
     user_id |-> "", user_input |-> <<>>, history |-> 0, logref |-> 0,
     stage |-> "", last_disease |-> None, out |-> NoOutcome, ret |-> 0,
     reply |-> [kind |-> "none", name |-> None, lines |-> <<>>]]

Other(t) == CHOOSE o \in Threads : o # t

Running(t) == thr[t].pc \notin {"idle", "done"}

\* USER_STAGE and USER_STATE of a user as a turn starting now would find them
StageOf(user_id) ==
    IF user_id \in DOMAIN USER_STAGE THEN USER_STAGE[user_id] ELSE "diagnosis"
LastDiseaseOf(user_id) ==
    IF user_id \in DOMAIN USER_STATE THEN USER_STATE[user_id] ELSE None

\* list.append(x) through a reference: it reaches the dict's list only while
\* the dict still holds the list object the reference names
AppendVia(d, user_id, ref, x) ==
    IF d[user_id].id = ref
    THEN Put(d, user_id, [d[user_id] EXCEPT !.items = Append(@, x)])
    ELSE d

ConcInit ==
    /\ DISEASES \in ConcCatalogs
    /\ DialogueInit
    /\ thr = [t \in Threads |-> IdleThread]

Step(t, pc) == thr' = [thr EXCEPT ![t].pc = pc]

Fixed == <<DISEASES, ratio, call, symptoms, top_k, ranked>>

\* (mutant) the empty-input return placed after lines 102-107: the user's
\* entries are created before the request is answered
RecvChatEmpty_afterInit(t, user_id, raw) ==
    /\ ~Running(t)
    /\ clock < MaxRequests
    /\ EmptyInput(raw)
    /\ clock' = clock + 1
    /\ USER_CONTEXTS' = IF user_id \in DOMAIN USER_CONTEXTS THEN USER_CONTEXTS
                         ELSE Put(USER_CONTEXTS, user_id, NewList(clock + 1, <<Greeting>>))
    /\ USER_HISTORY' = IF user_id \in DOMAIN USER_HISTORY THEN USER_HISTORY
                        ELSE Put(USER_HISTORY, user_id, NewList(clock + 1, <<>>))
    /\ USER_STAGE' = IF user_id \in DOMAIN USER_STAGE THEN USER_STAGE
                      ELSE Put(USER_STAGE, user_id, "diagnosis")
    /\ thr' = [thr EXCEPT ![t] = [IdleThread EXCEPT !.pc = "done", !.op = "chat",
                  !.rid = clock + 1, !.user_id = user_id, !.ret = 100,
                  !.reply.kind = "describe"]]
    /\ UNCHANGED <<Fixed, USER_STATE>>

\* a thread takes a chat request with empty input: lines 95-100
RecvChatEmpty(t, user_id, raw) ==
    /\ ~Running(t)
    /\ clock < MaxRequests
    /\ EmptyInput(raw)
    /\ clock' = clock + 1
    /\ thr' = [thr EXCEPT ![t] = [IdleThread EXCEPT !.pc = "done", !.op = "chat",
                  !.rid = clock + 1, !.user_id = user_id, !.ret = 100,
                  !.reply.kind = "describe"]]
    /\ UNCHANGED <<Fixed, USER_CONTEXTS, USER_STATE, USER_HISTORY, USER_STAGE>>

\* a thread takes a chat request with a non-empty input: lines 95-99
RecvChat(t, user_id, raw) ==
    /\ ~Running(t)
    /\ clock < MaxRequests
    /\ ~EmptyInput(raw)
    /\ clock' = clock + 1
    /\ thr' = [thr EXCEPT ![t] = [IdleThread EXCEPT !.pc = "l102", !.op = "chat",
                  !.rid = clock + 1, !.user_id = user_id,
                  !.user_input = InputOf(raw),
                  !.overlaps = IF Running(Other(t)) THEN thr[Other(t)].rid ELSE 0,
                  !.before = [stage |-> StageOf(user_id),
                              last_disease |-> LastDiseaseOf(user_id)]]]
    /\ UNCHANGED <<Fixed, USER_CONTEXTS, USER_STATE, USER_HISTORY, USER_STAGE>>

\* line 102: if user_id not in USER_CONTEXTS
L102(t) ==
    /\ thr[t].pc = "l102"
    /\ Step(t, IF thr[t].user_id \in DOMAIN USER_CONTEXTS THEN "l104" ELSE "l103")
    /\ UNCHANGED <<Fixed, clock, USER_CONTEXTS, USER_STATE, USER_HISTORY, USER_STAGE>>

\* line 103: USER_CONTEXTS[user_id] = [greeting]
L103(t) ==
    /\ thr[t].pc = "l103"
    /\ USER_CONTEXTS' = Put(USER_CONTEXTS, thr[t].user_id,
                            NewList(thr[t].rid, <<Greeting>>))
    /\ Step(t, "l104")
    /\ UNCHANGED <<Fixed, clock, USER_STATE, USER_HISTORY, USER_STAGE>>

\* line 104: if user_id not in USER_HISTORY
L104(t) ==
    /\ thr[t].pc = "l104"
    /\ Step(t, IF thr[t].user_id \in DOMAIN USER_HISTORY THEN "l106" ELSE "l105")
    /\ UNCHANGED <<Fixed, clock, USER_CONTEXTS, USER_STATE, USER_HISTORY, USER_STAGE>>

\* line 105: USER_HISTORY[user_id] = []
L105(t) ==
    /\ thr[t].pc = "l105"
    /\ USER_HISTORY' = Put(USER_HISTORY, thr[t].user_id, NewList(thr[t].rid, <<>>))
    /\ Step(t, "l106")
    /\ UNCHANGED <<Fixed, clock, USER_CONTEXTS, USER_STATE, USER_STAGE>>

\* line 106: if user_id not in USER_STAGE
L106(t) ==
    /\ thr[t].pc = "l106"
    /\ Step(t, IF thr[t].user_id \in DOMAIN USER_STAGE THEN "l109" ELSE "l107")
    /\ UNCHANGED <<Fixed, clock, USER_CONTEXTS, USER_STATE, USER_HISTORY, USER_STAGE>>

\* line 107: USER_STAGE[user_id] = "diagnosis"
L107(t) ==
    /\ thr[t].pc = "l107"
    /\ USER_STAGE' = Put(USER_STAGE, thr[t].user_id, "diagnosis")
    /\ Step(t, "l109")
    /\ UNCHANGED <<Fixed, clock, USER_CONTEXTS, USER_STATE, USER_HISTORY>>

\* line 109: history = USER_CONTEXTS[user_id]
L109(t) ==
    /\ thr[t].pc = "l109"
    /\ thr' = [thr EXCEPT ![t].pc = "l110",
                          ![t].history = USER_CONTEXTS[thr[t].user_id].id]
    /\ UNCHANGED <<Fixed, clock, USER_CONTEXTS, USER_STATE, USER_HISTORY, USER_STAGE>>

\* line 110: history.append(the user's message)
L110(t) ==
    /\ thr[t].pc = "l110"
    /\ USER_CONTEXTS' = AppendVia(USER_CONTEXTS, thr[t].user_id, thr[t].history,
                                  [role |-> "user", content |-> thr[t].user_input])
    /\ Step(t, "l111")
    /\ UNCHANGED <<Fixed, clock, USER_STATE, USER_HISTORY, USER_STAGE>>

\* line 111: stage = USER_STAGE[user_id]
L111(t) ==
    /\ thr[t].pc = "l111"
    /\ thr' = [thr EXCEPT ![t].pc = "l112", ![t].stage = USER_STAGE[thr[t].user_id]]
    /\ UNCHANGED <<Fixed, clock, USER_CONTEXTS, USER_STATE, USER_HISTORY, USER_STAGE>>

\* line 112: last_disease = USER_STATE.get(user_id)
L112(t) ==
    /\ thr[t].pc = "l112"
    /\ thr' = [thr EXCEPT ![t].pc = "l114",
                          ![t].last_disease = LastDiseaseOf(thr[t].user_id)]
    /\ UNCHANGED <<Fixed, clock, USER_CONTEXTS, USER_STATE, USER_HISTORY, USER_STAGE>>

\* lines 114-168 up to and with the first write: the branch is decided on the
\* locals; the confirmation branch writes the stage (118, 131), a diagnosis
\* writes USER_STATE (142, 162), no diagnosis writes the stage (168)
L114(t) ==
    LET me  == thr[t]
        out == Turn(me.stage, me.last_disease, me.user_input, clock)
    IN  /\ me.pc = "l114"
        /\ IF out.ret \in {156, 166}
           THEN /\ USER_STATE' = Put(USER_STATE, me.user_id, out.state)
                /\ UNCHANGED USER_STAGE
           ELSE /\ USER_STAGE' = Put(USER_STAGE, me.user_id, out.stage)
                /\ UNCHANGED USER_STATE
        /\ thr' = [thr EXCEPT ![t].out = out, ![t].ret = out.ret,
                      ![t].pc = IF out.ret \in {156, 166} THEN "l143" ELSE "reply"]
        /\ UNCHANGED <<Fixed, clock, USER_CONTEXTS, USER_HISTORY>>

\* lines 143 and 163: USER_STAGE[user_id] = "ask_remedies"
L143(t) ==
    /\ thr[t].pc = "l143"
    /\ USER_STAGE' = Put(USER_STAGE, thr[t].user_id, thr[t].out.stage)
    /\ Step(t, IF thr[t].ret = 156 THEN "l148" ELSE "reply")
    /\ UNCHANGED <<Fixed, clock, USER_CONTEXTS, USER_STATE, USER_HISTORY>>

\* line 148, first half: USER_HISTORY[user_id] is looked up
L148(t) ==
    /\ thr[t].pc = "l148"
    /\ thr' = [thr EXCEPT ![t].pc = "l148_append",
                          ![t].logref = USER_HISTORY[thr[t].user_id].id]
    /\ UNCHANGED <<Fixed, clock, USER_CONTEXTS, USER_STATE, USER_HISTORY, USER_STAGE>>

\* lines 148-154, second half: .append(record) on the list that was looked up
L148Append(t) ==
    /\ thr[t].pc = "l148_append"
    /\ USER_HISTORY' = AppendVia(USER_HISTORY, thr[t].user_id, thr[t].logref,
                                 thr[t].out.log[1])
    /\ Step(t, "reply")
    /\ UNCHANGED <<Fixed, clock, USER_CONTEXTS, USER_STATE, USER_STAGE>>

\* lines 124-125, 133-134, 155-156, 165-166, 170-171: history.append(reply); return
\* (the request, what it found on arrival and its response stay on record)
Reply(t) ==
    /\ thr[t].pc = "reply"
    /\ USER_CONTEXTS' = AppendVia(USER_CONTEXTS, thr[t].user_id, thr[t].history,
                                  [role |-> "assistant", content |-> thr[t].out.reply])
    /\ thr' = [thr EXCEPT ![t] = [IdleThread EXCEPT !.pc = "done", !.op = "chat",
                  !.rid = thr[t].rid, !.overlaps = thr[t].overlaps,
                  !.before = thr[t].before, !.user_id = thr[t].user_id,
                  !.user_input = thr[t].user_input, !.ret = thr[t].ret,
                  !.reply = thr[t].out.reply]]
    /\ UNCHANGED <<Fixed, clock, USER_STATE, USER_HISTORY, USER_STAGE>>

\* get_history() on a thread: one read
ThreadGetHistory(t, user_id) ==
    /\ ~Running(t)
    /\ clock < MaxRequests
    /\ clock' = clock + 1
    /\ thr' = [thr EXCEPT ![t] = [IdleThread EXCEPT !.pc = "done", !.op = "get_history",
                  !.rid = clock + 1, !.user_id = user_id, !.ret = 176,
                  !.reply = [kind |-> "history", name |-> None,
                             lines |-> IF user_id \in DOMAIN USER_HISTORY
                                       THEN USER_HISTORY[user_id].items ELSE <<>>]]]
    /\ UNCHANGED <<Fixed, USER_CONTEXTS, USER_STATE, USER_HISTORY, USER_STAGE>>

\* (mutant) every user's list replaced, not only the caller's
ThreadClearHistory_allUsers(t, user_id) ==
    /\ ~Running(t)
    /\ clock < MaxRequests
    /\ clock' = clock + 1
    /\ USER_HISTORY' = [x \in DOMAIN USER_HISTORY \cup {user_id} |->
                           NewList(clock + 1, <<>>)]
    /\ thr' = [thr EXCEPT ![t] = [IdleThread EXCEPT !.pc = "done",
                  !.op = "clear_history", !.rid = clock + 1, !.user_id = user_id,
                  !.ret = 182, !.reply.kind = "success"]]
    /\ UNCHANGED <<Fixed, USER_CONTEXTS, USER_STATE, USER_STAGE>>

\* clear_history() on a thread: one write
ThreadClearHistory(t, user_id) ==
    /\ ~Running(t)
    /\ clock < MaxRequests
    /\ clock' = clock + 1
    /\ USER_HISTORY' = Put(USER_HISTORY, user_id, NewList(clock + 1, <<>>))
    /\ thr' = [thr EXCEPT ![t] = [IdleThread EXCEPT !.pc = "done",
                  !.op = "clear_history", !.rid = clock + 1, !.user_id = user_id,
                  !.ret = 182, !.reply.kind = "success"]]
    /\ UNCHANGED <<Fixed, USER_CONTEXTS, USER_STATE, USER_STAGE>>

ConcNext ==
    \E t \in Threads :
        \/ \E u \in Users, raw \in ConcInputs : RecvChatEmpty(t, u, raw)
        \/ \E u \in Users, raw \in ConcInputs : RecvChat(t, u, raw)
        \/ L102(t) \/ L103(t) \/ L104(t) \/ L105(t) \/ L106(t) \/ L107(t)
        \/ L109(t) \/ L110(t) \/ L111(t) \/ L112(t) \/ L114(t) \/ L143(t)
        \/ L148(t) \/ L148Append(t) \/ Reply(t)
        \/ \E u \in Users : ThreadGetHistory(t, u)
        \/ \E u \in Users : ThreadClearHistory(t, u)

ConcSpec == ConcInit /\ [][ConcNext]_vars

-----------------------------------------------------------------------------
(* Properties of the threaded server (specification ConcSpec)              *)

\* what the four dicts hold for one user (<<>> for a missing key)
Entry(d, user_id) == IF user_id \in DOMAIN d THEN <<d[user_id]>> ELSE <<>>
UserView(user_id) ==
    [stage       |-> Entry(USER_STAGE, user_id),
     lastDisease |-> Entry(USER_STATE, user_id),
     turnHistory |-> Entry(USER_CONTEXTS, user_id),
     diagnosisLog |-> Entry(USER_HISTORY, user_id)]

\* C8: a step of a chat turn, a history read or a history clear for user A,
\* under any interleaving, changes nothing that the dicts hold for a user B # A,
\* and what it loads (stage, last_disease, the history returned) is A's own.
C8_Isolation ==
    [][\A t \in Threads :
          thr'[t] # thr[t] =>
             LET me == thr'[t].user_id
             IN  /\ \A other \in Users \ {me} : UserView(other)' = UserView(other)
                 /\ thr[t].pc = "l111" => thr'[t].stage = USER_STAGE[me]
                 /\ thr[t].pc = "l112" => thr'[t].last_disease = LastDiseaseOf(me)
                 /\ thr'[t].op = "get_history" =>
                       thr'[t].reply.lines =
                          (IF me \in DOMAIN USER_HISTORY THEN USER_HISTORY[me].items
                           ELSE <<>>)]_vars

\* two turns of different users ran interleaved and both were diagnosed
C8_Witness ==
    /\ thr[1].pc = "done" /\ thr[2].pc = "done"
    /\ thr[1].user_id # thr[2].user_id
    /\ thr[1].ret = 156 /\ thr[2].ret = 156
    /\ thr[1].overlaps # 0 \/ thr[2].overlaps # 0
    /\ \A u \in Users : StageOf(u) = "ask_remedies"

\* threads a and b have each answered a chat turn of the same user; a's began
\* while no other request ran, b's was the next request and began during a's
ConcurrentTurns(a, b) ==
    /\ thr[a].pc = "done" /\ thr[b].pc = "done"
    /\ thr[a].op = "chat" /\ thr[b].op = "chat"
    /\ thr[a].ret # 100 /\ thr[b].ret # 100
    /\ thr[a].user_id = thr[b].user_id
    /\ thr[a].overlaps = 0
    /\ thr[b].overlaps = thr[a].rid
    /\ thr[b].rid = thr[a].rid + 1

\* stage, lastDisease and the two replies when x's turn runs to completion
\* from the state `before`, and then y's
SerialOrder(before, x, y) ==
    LET o1 == Turn(before.stage, before.last_disease, x.user_input, 0)
        l1 == IF o1.state = None THEN before.last_disease ELSE o1.state
        o2 == Turn(o1.stage, l1, y.user_input, 0)
        l2 == IF o2.state = None THEN l1 ELSE o2.state
    IN  [stage |-> o2.stage, lastDisease |-> l2,
         replies |-> (x.rid :> o1.reply) @@ (y.rid :> o2.reply)]

\* C9: two concurrent chat turns of one user leave the stage and lastDisease,
\* and give the replies, of one of the two serial orders of the turns.
C9_SerialEquivalent ==
    \A a, b \in Threads :
        ConcurrentTurns(a, b) =>
           LET observed == [stage |-> StageOf(thr[a].user_id),
                            lastDisease |-> LastDiseaseOf(thr[a].user_id),
                            replies |-> (thr[a].rid :> thr[a].reply)
                                        @@ (thr[b].rid :> thr[b].reply)]
           IN  \/ observed = SerialOrder(thr[a].before, thr[a], thr[b])
               \/ observed = SerialOrder(thr[a].before, thr[b], thr[a])

\* C19: a chat turn with empty input creates no entry for any user and leaves
\* the stage, the lastDisease, the exchanged messages and the diagnosis log of
\* every user as they were.
C19_EmptyInputFrame ==
    [][\A t \in Threads :
          (thr'[t] # thr[t] /\ thr'[t].op = "chat" /\ thr'[t].ret = 100)
          => /\ \A u \in Users : UserView(u)' = UserView(u)
             /\ DOMAIN USER_CONTEXTS' = DOMAIN USER_CONTEXTS
             /\ DOMAIN USER_STATE' = DOMAIN USER_STATE
             /\ DOMAIN USER_HISTORY' = DOMAIN USER_HISTORY
             /\ DOMAIN USER_STAGE' = DOMAIN USER_STAGE]_vars

\* an empty input from a user who waits at ask_remedies, and the other user
\* still without any entry
C19_Witness ==
    \E t \in Threads :
        /\ thr[t].op = "chat" /\ thr[t].ret = 100
        /\ StageOf(thr[t].user_id) = "ask_remedies"
        /\ thr[Other(t)].pc = "done"
        /\ \A u \in Users \ {thr[t].user_id} : UserView(u).stage = <<>>

\* C20: clear_history for a user leaves that user with an empty diagnosis log
\* and changes nothing else: not the user's stage, lastDisease or exchanged
\* messages, and nothing of any other user; get_history changes nothing.
C20_HistoryFrame ==
    [][\A t \in Threads :
          thr'[t] # thr[t] =>
             /\ thr'[t].op = "clear_history" =>
                   /\ thr'[t].user_id \in DOMAIN USER_HISTORY'
                   /\ ItemsIn(USER_HISTORY', thr'[t].user_id) = <<>>
                   /\ USER_STAGE' = USER_STAGE
                   /\ USER_STATE' = USER_STATE
                   /\ USER_CONTEXTS' = USER_CONTEXTS
                   /\ \A o \in Users :
                         o # thr'[t].user_id => UserView(o)' = UserView(o)
             /\ thr'[t].op = "get_history" =>
                   /\ \A u \in Users : UserView(u)' = UserView(u)
                   /\ DOMAIN USER_HISTORY' = DOMAIN USER_HISTORY]_vars

\* a user's log is cleared after that user's diagnosis was logged: the log is
\* empty, the stage and the lastDisease of the diagnosis remain
C20_Witness ==
    \E t \in Threads :
        /\ thr[t].op = "clear_history"
        /\ thr[Other(t)].pc = "done" /\ thr[Other(t)].ret = 156
        /\ thr[Other(t)].user_id = thr[t].user_id
        /\ thr[Other(t)].rid < thr[t].rid
        /\ ItemsIn(USER_HISTORY, thr[t].user_id) = <<>>
        /\ StageOf(thr[t].user_id) = "ask_remedies"
        /\ LastDiseaseOf(thr[t].user_id) = N_Flu

====
